---- MODULE Spec2Model ----
(***************************************************************************)
(* npm-helper-mcp (src/index.ts): the request-gating and dispatch layer.   *)
(*                                                                         *)
(*   RateLimiter            the paced FIFO gate (acquire / processQueue)   *)
(*   NpmSearcher            fetchWithTimeout and the four registry tools   *)
(*   NpmCheckUpdatesHandler the six update tools                           *)
(*   CallToolRequestSchema  the dispatcher: validation, the race against   *)
(*                          the invocation timer, the catch block          *)
(*                                                                         *)
(* Time is the value of Date.now() in milliseconds.  One step of the model *)
(* is one macrotask of the event loop together with the microtasks it      *)
(* triggers (promise continuations run before the next macrotask).         *)
(***************************************************************************)
EXTENDS Integers, Sequences, FiniteSets, Bags, TLC

VARIABLES
  now,              \* Date.now()
  queue,            \* RateLimiter.queue: the resolve callbacks, by caller id
  lastRequestTime,  \* RateLimiter.lastRequestTime
  gateTimers,       \* pending setTimeout(() => this.processQueue()): bag of due times
  waiter,           \* state of the promise each acquire() call returned
  callLog,          \* history: the acquire() calls in call order, with their times
  releaseLog,       \* history: the released waiters in release order, with the
                    \* time of the release and the acquire() call that made it
                    \* (by; 0 when a timer made it)
  inv               \* the tool invocations (CallToolRequestSchema handler runs)

gateVars == <<queue, lastRequestTime, gateTimers, waiter, callLog, releaseLog>>
vars == <<now, gateVars, inv>>

----------------------------------------------------------------------------
(* Bounds of the model *)

MaxCallers == 3       \* acquire() calls in one run of the gate
MaxAcquireTicks == 2  \* acquire() calls arrive during this many ticks
MaxLateTicks == 1     \* a due timer runs at most this many ticks late
MaxInv == 1           \* tool invocations followed through the dispatcher; the
                      \* other callers are followed at the gate only
MaxVersions == 16     \* versions of an upstream package document
MaxObjects == 2       \* objects of an upstream search response
MaxOver == 2          \* characters by which a README exceeds the cap

----------------------------------------------------------------------------
(* RateLimiter *)

requestsPerSecond == 2

rateLimit == 1000 \div requestsPerSecond

\* The clock resolution of the gate model: half the minimum spacing, so that
\* a caller can arrive part-way through a spacing interval.
TickMs == rateLimit \div 2

\* Date.now() when the process starts: far more than rateLimit after 0.
Epoch == 2 * rateLimit

MaxLate == MaxLateTicks * TickMs
LastAcquireTime == Epoch + MaxAcquireTicks * TickMs
GateHorizon == LastAcquireTime + (MaxCallers + 1) * (rateLimit + MaxLate)

Callers == 1 .. MaxCallers

NoTimer == 0 - 1

\* processQueue when it never re-arms: a waiter that arrives too early is left
\* in the queue with no wake-up.
processQueueNoRearm(q, last, t) ==
  IF Len(q) = 0
    THEN [queue |-> q, lastRequestTime |-> last, delay |-> NoTimer, next |-> <<>>]
    ELSE IF t - last >= rateLimit
      THEN [queue |-> Tail(q), lastRequestTime |-> t, delay |-> NoTimer,
            next |-> <<Head(q)>>]
      ELSE [queue |-> q, lastRequestTime |-> last, delay |-> NoTimer, next |-> <<>>]

\* processQueue when it forgets to record the release time.
processQueueNoStamp(q, last, t) ==
  IF Len(q) = 0
    THEN [queue |-> q, lastRequestTime |-> last, delay |-> NoTimer, next |-> <<>>]
    ELSE IF t - last >= rateLimit
      THEN [queue |-> Tail(q), lastRequestTime |-> last, delay |-> NoTimer,
            next |-> <<Head(q)>>]
      ELSE [queue |-> q, lastRequestTime |-> last,
            delay |-> rateLimit - (t - last), next |-> <<>>]

\* processQueue when it releases the most recent waiter (pop) instead of the
\* oldest (shift).
processQueuePop(q, last, t) ==
  IF Len(q) = 0
    THEN [queue |-> q, lastRequestTime |-> last, delay |-> NoTimer, next |-> <<>>]
    ELSE IF t - last >= rateLimit
      THEN [queue |-> SubSeq(q, 1, Len(q) - 1), lastRequestTime |-> t,
            delay |-> NoTimer, next |-> <<q[Len(q)]>>]
      ELSE [queue |-> q, lastRequestTime |-> last,
            delay |-> rateLimit - (t - last), next |-> <<>>]

\* RateLimiter.processQueue run at time t on queue q: the queue and
\* lastRequestTime it leaves, the delay of the timer it sets (NoTimer when it
\* sets none) and the waiter it resolves (next).
processQueue(q, last, t) ==
  IF Len(q) = 0
    THEN [queue |-> q, lastRequestTime |-> last, delay |-> NoTimer, next |-> <<>>]
    ELSE LET timeSinceLastRequest == t - last IN
      IF timeSinceLastRequest >= rateLimit
        THEN [queue |-> Tail(q), lastRequestTime |-> t, delay |-> NoTimer,
              next |-> <<Head(q)>>]
        ELSE [queue |-> q, lastRequestTime |-> last,
              delay |-> rateLimit - timeSinceLastRequest, next |-> <<>>]

\* The gate after a processQueue run whose outcome is r; timers are the
\* timers still pending when it ran, w0 is the caller whose acquire() ran it
\* (0 when a timer ran it).
GateAfter(r, timers, w0) ==
  /\ queue' = r.queue
  /\ lastRequestTime' = r.lastRequestTime
  /\ gateTimers' = IF r.delay = NoTimer THEN timers
                   ELSE timers (+) SetToBag({now + r.delay})
  /\ waiter' = [w \in Callers |->
                  IF r.next # <<>> /\ w = r.next[1] THEN "resolved"
                  ELSE IF w = w0 THEN "queued"
                  ELSE waiter[w]]
  /\ releaseLog' = IF r.next = <<>> THEN releaseLog
                   ELSE Append(releaseLog, [w |-> r.next[1], at |-> now, by |-> w0])

\* RateLimiter.acquire(), called by caller w: push the resolve callback, then
\* processQueue.
acquire(w) ==
  /\ GateAfter(processQueue(Append(queue, w), lastRequestTime, now), gateTimers, w)
  /\ callLog' = Append(callLog, [w |-> w, at |-> now])

----------------------------------------------------------------------------
(* The tools and their argument schemas *)

RegistryTools ==
  {"search_npm", "fetch_package_content", "get_package_versions",
   "get_package_details"}

UpdateTools ==
  {"check_updates", "upgrade_packages", "filter_updates", "resolve_conflicts",
   "set_version_constraints", "run_doctor"}

Tools == RegistryTools \cup UpdateTools

\* The operation names a caller may send: the ten tools and one that is none.
Names == Tools \cup {"bogus_tool"}

\* A field of a Zod object schema: the type it must have and whether it may
\* be left out.
Req(type) == [type |-> type, required |-> TRUE]
Opt(type) == [type |-> type, required |-> FALSE]

\* SearchNpmSchema ... RunDoctorSchema, by tool name.
Schema(name) ==
  CASE name = "search_npm" ->
         [query |-> Req("string"), maxResults |-> Opt("number")]
    [] name = "fetch_package_content" ->
         [url |-> Req("url")]
    [] name = "get_package_versions" ->
         [packageName |-> Req("string")]
    [] name = "get_package_details" ->
         [packageName |-> Req("string")]
    [] name = "check_updates" ->
         [packagePath |-> Opt("string"), filter |-> Opt("stringArray"),
          reject |-> Opt("stringArray"), target |-> Opt("NcuTarget"),
          peer |-> Opt("boolean"), minimal |-> Opt("boolean"),
          packageManager |-> Opt("PackageManager")]
    [] name = "upgrade_packages" ->
         [packagePath |-> Opt("string"), upgradeType |-> Opt("NcuTarget"),
          peer |-> Opt("boolean"), minimal |-> Opt("boolean"),
          packageManager |-> Opt("PackageManager")]
    [] name = "filter_updates" ->
         [packagePath |-> Opt("string"), filter |-> Req("stringArrayMin1"),
          upgrade |-> Opt("boolean"), minimal |-> Opt("boolean"),
          packageManager |-> Opt("PackageManager")]
    [] name = "resolve_conflicts" ->
         [packagePath |-> Opt("string"), upgrade |-> Opt("boolean"),
          minimal |-> Opt("boolean"), packageManager |-> Opt("PackageManager")]
    [] name = "set_version_constraints" ->
         [packagePath |-> Opt("string"), target |-> Req("NcuTarget"),
          removeRange |-> Opt("boolean"), upgrade |-> Opt("boolean"),
          minimal |-> Opt("boolean"), packageManager |-> Opt("PackageManager")]
    [] name = "run_doctor" ->
         [packagePath |-> Opt("string"), doctorInstall |-> Opt("string"),
          doctorTest |-> Opt("string"), packageManager |-> Opt("PackageManager")]

\* The JSON values a caller may put in a field, by what the schemas can tell
\* apart: a field left out, null, a number, a boolean, a string that is
\* neither a URL nor a member of an enum ("text"), a URL, a member of
\* NcuTargetEnum ("latest"), a member of PackageManagerEnum ("npm"), an empty
\* array, an array of strings, an array of numbers.
Kinds ==
  {"absent", "null", "number", "boolean", "text", "urlText", "targetText",
   "pmText", "emptyArray", "stringArray", "numberArray"}

\* Whether a Zod type accepts a value of a kind.
Accepts(type, kind) ==
  CASE type = "string" -> kind \in {"text", "urlText", "targetText", "pmText"}
    [] type = "url" -> kind = "urlText"
    [] type = "number" -> kind = "number"
    [] type = "boolean" -> kind = "boolean"
    [] type = "stringArray" -> kind \in {"emptyArray", "stringArray"}
    [] type = "stringArrayMin1" -> kind = "stringArray"
    [] type = "NcuTarget" -> kind = "targetText"
    [] type = "PackageManager" -> kind = "pmText"

\* <Schema>.safeParse(args).success: args is an object (request.params
\* .arguments may be undefined or no object at all) and every field of the
\* schema is either left out where optional or of the type declared. Keys the
\* schema does not name are stripped, not rejected.
safeParse(name, args) ==
  /\ args.object
  /\ \A f \in DOMAIN Schema(name) :
       IF args.fields[f] = "absent"
         THEN ~Schema(name)[f].required
         ELSE Accepts(Schema(name)[f].type, args.fields[f])

\* A value of the kind a type wants.
GoodKind(type) ==
  CASE type = "string" -> "text"
    [] type = "url" -> "urlText"
    [] type = "number" -> "number"
    [] type = "boolean" -> "boolean"
    [] type = "stringArray" -> "stringArray"
    [] type = "stringArrayMin1" -> "stringArray"
    [] type = "NcuTarget" -> "targetText"
    [] type = "PackageManager" -> "pmText"

\* The argument bags tried for a tool: no object, every field given and well
\* typed, and that bag with one field replaced by a value of any kind.
ArgBags(name) ==
  LET full == [f \in DOMAIN Schema(name) |-> GoodKind(Schema(name)[f].type)]
  IN {[object |-> FALSE, fields |-> full], [object |-> TRUE, fields |-> full]}
       \cup {[object |-> TRUE, fields |-> [full EXCEPT ![f] = k]] :
               f \in DOMAIN Schema(name), k \in Kinds}

----------------------------------------------------------------------------
(* Upstream payloads and what the registry handlers make of them *)

\* Array.prototype.slice(0, n), slice(-n), reverse() and join(sep); a joined
\* string is kept as the tuple of its pieces.
sliceFirst(s, n) == SubSeq(s, 1, IF Len(s) < n THEN Len(s) ELSE n)
sliceLast(s, n) == SubSeq(s, (IF Len(s) < n THEN 0 ELSE Len(s) - n) + 1, Len(s))
reverse(s) == [k \in 1 .. Len(s) |-> s[Len(s) + 1 - k]]
join(s, sep) ==
  IF Len(s) = 0 THEN <<>>
  ELSE [k \in 1 .. 2 * Len(s) - 1 |-> IF k % 2 = 1 THEN s[(k + 1) \div 2] ELSE sep]

\* The concatenation of a tuple of tuples of pieces.
RECURSIVE concat(_)
concat(ss) == IF Len(ss) = 0 THEN <<>> ELSE Head(ss) \o concat(Tail(ss))

\* The k-th version of a package in upstream insertion order, the k-th package
\* of a search response, the k-th character of a README.
Ver(k) == "1.0." \o ToString(k)
Pkg(k) == "package-" \o ToString(k)
Chr(k) == ToString(k)

\* The fields getPackageDetails copies from a version entry, in its order.
KeptFields ==
  <<"name", "version", "description", "main", "dependencies", "devDependencies",
    "peerDependencies">>

\* The fields of the k-th upstream version entry: a full entry with more
\* fields than are kept, or a sparse one.
UpstreamFields(k) ==
  IF k % 2 = 1 THEN KeptFields \o <<"scripts", "dist", "readme">>
  ELSE <<"name", "version", "dist">>

\* A response body: whether response.json()/text() succeeded (parsed) and, by
\* kind of body, the parts the handlers look at. A search response has total
\* and, unless it lacks them, objects; a package document has, unless it lacks
\* them, versions and a time map with one entry per version besides created
\* and modified; a web page has the elements in page and the README text.
NoBody ==
  [parsed |-> FALSE, total |-> 0, hasObjects |-> FALSE, objects |-> <<>>,
   hasVersions |-> FALSE, versions |-> <<>>, hasTime |-> FALSE,
   page |-> {}, readme |-> <<>>]

\* What a handler returns: packages (search), pieces of text (content),
\* version strings (versions) or version entries (details) in items, the kept
\* keys of the time map, and totalResults.
NoPayload == [items |-> <<>>, time |-> <<>>, total |-> 0]

\* The outcome of the statements between the read of the body and the return.
Returned(payload) == [threw |-> FALSE, message |-> <<>>, payload |-> payload]
Thrown(message) == [threw |-> TRUE, message |-> message, payload |-> NoPayload]

\* searchPackages after response.json(): data.objects.map(...) and data.total.
\* A field read through ?. is left out when its parent is missing.
searchPackages(data) ==
  IF ~data.hasObjects
    THEN Thrown(<<"Cannot read properties of undefined (reading 'map')">>)
    ELSE Returned(
      [items |-> [k \in 1 .. Len(data.objects) |->
                    LET obj == data.objects[k] IN
                    [name |-> obj.name,
                     version |-> obj.version,
                     description |-> IF obj.description
                                       THEN <<"description of " \o obj.name>>
                                       ELSE <<>>,
                     author |-> IF obj.author THEN <<"author of " \o obj.name>>
                                ELSE <<>>,
                     homepage |-> IF obj.links THEN <<"homepage of " \o obj.name>>
                                  ELSE <<>>,
                     repository |-> IF obj.links
                                      THEN <<"repository of " \o obj.name>>
                                      ELSE <<>>,
                     keywords |-> <<>>]],
       time |-> <<>>,
       total |-> data.total])

readmeCap == 4000

TruncationMarker == "...\n[README content truncated]"

\* The README when it is cut at readmeCap characters or more, not above it.
capReadmeAtCap(readme) ==
  IF Len(readme) >= readmeCap
    THEN SubSeq(readme, 1, readmeCap) \o <<TruncationMarker>>
    ELSE readme

\* The README as fetchPackageContent emits it.
capReadme(readme) ==
  IF Len(readme) > readmeCap
    THEN SubSeq(readme, 1, readmeCap) \o <<TruncationMarker>>
    ELSE readme

\* fetchPackageContent after response.text(): the elements found on the page,
\* then the README; a page with none of them gives the fallback text.
fetchPackageContent(html) ==
  LET content ==
        (IF "packageName" \in html.page
           THEN <<"Package: ", "name on page", "\n">> ELSE <<>>)
        \o (IF "version" \in html.page
              THEN <<"Version: ", "version on page", "\n">> ELSE <<>>)
        \o (IF "description" \in html.page
              THEN <<"Description: ", "description on page", "\n\n">> ELSE <<>>)
        \o (IF Len(html.readme) > 0
              THEN <<"README:\n">> \o capReadme(html.readme) ELSE <<>>)
  IN Returned([NoPayload EXCEPT
                 !.items = IF content = <<>>
                             THEN <<"No extractable content found.">>
                             ELSE content])

\* getPackageVersions after response.json(): Object.keys(data.versions)
\* .reverse().
getPackageVersions(data) ==
  IF ~data.hasVersions
    THEN Thrown(<<"Cannot convert undefined or null to object">>)
    ELSE Returned([NoPayload EXCEPT
                     !.items = reverse([k \in 1 .. Len(data.versions) |->
                                          data.versions[k].key])])

versionsKept == 10

\* getPackageDetails when it keeps the first entries instead of the last.
getPackageDetailsFirst(data) ==
  IF ~data.hasVersions
    THEN Thrown(<<"Cannot convert undefined or null to object">>)
    ELSE Returned([NoPayload EXCEPT
                     !.items = sliceFirst(data.versions, versionsKept)])

\* getPackageDetails after response.json(): the last versionsKept entries of
\* data.versions, each cut down to KeptFields (a field the entry lacks is
\* undefined), and of data.time created, modified and the last versionsKept
\* other entries. The top-level fields are copied as they are.
getPackageDetails(data) ==
  IF ~data.hasVersions
    THEN Thrown(<<"Cannot convert undefined or null to object">>)
    ELSE Returned(
      [items |-> LET last == sliceLast(data.versions, versionsKept) IN
                 [k \in 1 .. Len(last) |->
                    [key |-> last[k].key,
                     fields |-> LET has(f) == \E j \in 1 .. Len(last[k].fields) :
                                                last[k].fields[j] = f
                                IN SelectSeq(KeptFields, has)]],
       time |-> IF data.hasTime
                  THEN <<"created", "modified">>
                       \o sliceLast([k \in 1 .. Len(data.versions) |->
                                       data.versions[k].key], versionsKept)
                  ELSE <<>>,
       total |-> 0])

\* The mark formatSearchResults and formatVersions put before a package name
\* (the package emoji and a space).
PackageMark == "[package] "

\* formatSearchResults when it reports the upstream total as the shown count.
formatSearchResultsTotal(results) ==
  IF Len(results.items) = 0 THEN <<"No packages found.">>
  ELSE <<"Found ", ToString(results.total), " packages (showing ",
         ToString(results.total), "):\n\n">>
       \o concat([k \in 1 .. Len(results.items) |->
                    <<PackageMark, results.items[k].name, "@",
                      results.items[k].version, "\n", "\n">>])

\* NpmSearcher.formatSearchResults.
formatSearchResults(results) ==
  IF Len(results.items) = 0 THEN <<"No packages found.">>
  ELSE <<"Found ", ToString(results.total), " packages (showing ",
         ToString(Len(results.items)), "):\n\n">>
       \o concat([k \in 1 .. Len(results.items) |->
                    LET pkg == results.items[k] IN
                    <<PackageMark, pkg.name, "@", pkg.version, "\n">>
                    \o (IF pkg.description # <<>>
                          THEN <<"   Description: ">> \o pkg.description \o <<"\n">>
                          ELSE <<>>)
                    \o (IF pkg.author # <<>>
                          THEN <<"   Author: ">> \o pkg.author \o <<"\n">>
                          ELSE <<>>)
                    \o <<"\n">>])

versionsShown == 15

\* formatVersions when it lists every version.
formatVersionsAll(packageName, versions) ==
  IF Len(versions) = 0 THEN <<"No versions found for ", packageName, ".">>
  ELSE <<PackageMark, packageName, "\nAvailable versions (newest first):\n">>
       \o join(versions, ", ")
       \o (IF Len(versions) > versionsShown
             THEN <<"\n...and ", ToString(Len(versions) - versionsShown),
                    " more versions">>
             ELSE <<>>)

\* NpmSearcher.formatVersions.
formatVersions(packageName, versions) ==
  IF Len(versions) = 0 THEN <<"No versions found for ", packageName, ".">>
  ELSE <<PackageMark, packageName, "\nAvailable versions (newest first):\n">>
       \o join(sliceFirst(versions, versionsShown), ", ")
       \o (IF Len(versions) > versionsShown
             THEN <<"\n...and ", ToString(Len(versions) - versionsShown),
                    " more versions">>
             ELSE <<>>)

\* JSON.stringify(details, null, 2): the keys of the record in order; a key
\* whose value is undefined is left out.
stringify(details) ==
  <<"name", "description", "dist-tags", "maintainers", "homepage", "repository",
    "license", "versions">>
  \o concat([k \in 1 .. Len(details.items) |->
               <<details.items[k].key>> \o details.items[k].fields])
  \o (IF details.time # <<>> THEN <<"time">> \o details.time ELSE <<>>)

\* The packageName argument of the invocation.
ArgPackageName == "packageName"

\* The statements of a registry handler after the body was read.
shape(name, body) ==
  CASE name = "search_npm" -> searchPackages(body)
    [] name = "fetch_package_content" -> fetchPackageContent(body)
    [] name = "get_package_versions" -> getPackageVersions(body)
    [] name = "get_package_details" -> getPackageDetails(body)

\* The text the dispatcher makes of what the handler returned.
formatResult(name, payload) ==
  CASE name = "search_npm" -> formatSearchResults(payload)
    [] name = "fetch_package_content" -> payload.items
    [] name = "get_package_versions" -> formatVersions(ArgPackageName, payload.items)
    [] name = "get_package_details" -> stringify(payload)

\* The upstream package documents: with or without versions, with or without
\* a time map, with up to MaxVersions versions.
DocBodies ==
  {[NoBody EXCEPT !.parsed = TRUE, !.hasVersions = hv, !.hasTime = ht,
                  !.versions = IF hv
                                 THEN [k \in 1 .. V |->
                                         [key |-> Ver(k), fields |-> UpstreamFields(k)]]
                                 ELSE <<>>] :
     hv \in BOOLEAN, ht \in BOOLEAN, V \in 0 .. MaxVersions}

\* The upstream search responses: without objects, or with up to MaxObjects
\* objects, each with or without description, author and links, and a total
\* that is the number of objects or more.
SearchBodies ==
  {[NoBody EXCEPT !.parsed = TRUE, !.total = 42]}
  \cup UNION {
    {[NoBody EXCEPT !.parsed = TRUE, !.hasObjects = TRUE, !.total = total,
                    !.objects = [k \in 1 .. n |->
                                   [name |-> Pkg(k), version |-> "1.0.0",
                                    description |-> f[k].description,
                                    author |-> f[k].author,
                                    links |-> f[k].links]]] :
       f \in [1 .. n -> [description : BOOLEAN, author : BOOLEAN, links : BOOLEAN]],
       total \in {n, 42}} :
    n \in 0 .. MaxObjects}

\* The README lengths tried: none, short, just under, at and over the cap.
ReadmeLengths ==
  {0, 1, readmeCap - 1, readmeCap} \cup {readmeCap + k : k \in 1 .. MaxOver}

\* The upstream web pages.
PageBodies ==
  {[NoBody EXCEPT !.parsed = TRUE, !.page = p, !.readme = [k \in 1 .. L |-> Chr(k)]] :
     p \in SUBSET {"packageName", "version", "description"}, L \in ReadmeLengths}

\* The bodies the upstream may send to a handler, NoBody standing for one that
\* response.json()/text() fails on.
Bodies(name) ==
  CASE name = "search_npm" -> {NoBody} \cup SearchBodies
    [] name = "fetch_package_content" -> {NoBody} \cup PageBodies
    [] name \in {"get_package_versions", "get_package_details"} ->
         {NoBody} \cup DocBodies
    [] OTHER -> {}

\* One body that cannot be read and one that is shaped without error: a
\* search response with one object, a document with one version, a page with
\* every element and a README of one character.
SampleBodies(name) ==
  CASE name = "search_npm" ->
         {NoBody,
          [NoBody EXCEPT !.parsed = TRUE, !.hasObjects = TRUE, !.total = 42,
                         !.objects = <<[name |-> Pkg(1), version |-> "1.0.0",
                                        description |-> TRUE, author |-> TRUE,
                                        links |-> TRUE]>>]}
    [] name = "fetch_package_content" ->
         {NoBody,
          [NoBody EXCEPT !.parsed = TRUE, !.readme = <<Chr(1)>>,
                         !.page = {"packageName", "version", "description"}]}
    [] name \in {"get_package_versions", "get_package_details"} ->
         {NoBody,
          [NoBody EXCEPT !.parsed = TRUE, !.hasVersions = TRUE, !.hasTime = TRUE,
                         !.versions = <<[key |-> Ver(1),
                                         fields |-> UpstreamFields(1)]>>]}
    [] OTHER -> {}

----------------------------------------------------------------------------
(* Promises, errors and responses *)

\* How a promise stands: pending, fulfilled with a text, or rejected with an
\* error of a class (Error, McpError), an MCP error code and a message. A
\* text is a tuple of the pieces that were joined into it.
Pending == [state |-> "pending", class |-> "", code |-> "", text |-> <<>>]
Fulfilled(text) == [state |-> "fulfilled", class |-> "", code |-> "", text |-> text]
Rejected(class, code, text) ==
  [state |-> "rejected", class |-> class, code |-> code, text |-> text]

\* What the caller of the tool gets: nothing yet, a ToolResult envelope, or
\* an McpError thrown to the SDK. isError is FALSE where the envelope has no
\* isError field. segments is the length of content.
NoResponse ==
  [kind |-> "none", isError |-> FALSE, code |-> "", text |-> <<>>, segments |-> 0]

toolTimeout == 30000

\* The message of the invocation timer's rejection.
TimeoutText ==
  <<"Tool execution timed out after ", ToString(toolTimeout \div 1000), "s">>

\* The catch block when it re-throws whatever it caught.
RespondRethrowAll(s) ==
  IF s.state = "fulfilled"
    THEN [kind |-> "envelope", isError |-> FALSE, code |-> "", text |-> s.text,
          segments |-> 1]
    ELSE [kind |-> "thrown", isError |-> FALSE, code |-> s.code, text |-> s.text,
          segments |-> 0]

\* The catch block when it answers every failure with the same text.
RespondGeneric(s) ==
  IF s.state = "fulfilled"
    THEN [kind |-> "envelope", isError |-> FALSE, code |-> "", text |-> s.text,
          segments |-> 1]
    ELSE IF s.class = "McpError"
      THEN [kind |-> "thrown", isError |-> FALSE, code |-> s.code, text |-> s.text,
            segments |-> 0]
      ELSE [kind |-> "envelope", isError |-> TRUE, code |-> "",
            text |-> <<"Tool execution failed">>, segments |-> 1]

\* What the dispatcher does with the settled race: return the result; in the
\* catch block re-throw an McpError and turn anything else into an isError
\* envelope with the error's message as its one text segment.
Respond(s) ==
  IF s.state = "fulfilled"
    THEN [kind |-> "envelope", isError |-> FALSE, code |-> "", text |-> s.text,
          segments |-> 1]
    ELSE IF s.class = "McpError"
      THEN [kind |-> "thrown", isError |-> FALSE, code |-> s.code, text |-> s.text,
            segments |-> 0]
      ELSE [kind |-> "envelope", isError |-> TRUE, code |-> "", text |-> s.text,
            segments |-> 1]

\* A race that follows the latest settlement instead of the first.
RaceLast(current, s) == s

\* Promise.race over promises of which one has just settled as s: the race
\* takes the first settlement and keeps it.
Race(current, s) == IF current.state = "pending" THEN s ELSE current

\* The promises handed to Promise.race, which handles their rejections.
RaceInputs == {"result", "timeout"}

\* An invocation not yet made.
IdleInv ==
  [name |-> "", argsOk |-> FALSE, start |-> 0 - 1, pc |-> "idle",
   result |-> Pending, toolTimer |-> "none",
   abortTimer |-> "none", abortDue |-> 0 - 1, aborted |-> FALSE,
   race |-> Pending, response |-> NoResponse, late |-> FALSE,
   timedOut |-> FALSE,
   responses |-> 0, faults |-> 0,
   handlerCalls |-> 0, acquires |-> 0, fetches |-> 0, lookups |-> 0,
   ncuRuns |-> 0, manifest |-> "", status |-> 0, reads |-> 0, body |-> NoBody,
   payload |-> NoPayload]

\* Promise `source` of invocation rec settles as s at time t: the race takes
\* it if it is the first, and then the rest of the dispatcher runs, once.
\* late records whether that was after the invocation-level timeout.
Deliver(rec, source, s, t) ==
  LET won == Race(rec.race, s)
      first == won # rec.race
  IN [rec EXCEPT
        !.race = won,
        !.response = IF first THEN Respond(won) ELSE @,
        !.late = IF first THEN t > rec.start + toolTimeout ELSE @,
        !.responses = IF first THEN @ + 1 ELSE @,
        !.faults = IF s.state = "rejected" /\ source \notin RaceInputs
                     THEN @ + 1 ELSE @]

\* The handler's promise (resultPromise) settles as s.
settleHandler(rec, s, t) ==
  Deliver([rec EXCEPT !.result = s, !.pc = "done"], "result", s, t)

\* The invocation timer when its callback rejects nothing.
toolTimerCallbackNoReject(rec, t) ==
  [rec EXCEPT !.toolTimer = "fired", !.timedOut = (rec.result.state = "pending")]

\* The callback of the invocation timer: timeoutPromise rejects. timedOut
\* records that the handler had not settled when it ran.
toolTimerCallback(rec, t) ==
  Deliver([rec EXCEPT !.toolTimer = "fired",
                      !.timedOut = (rec.result.state = "pending")],
          "timeout", Rejected("Error", "", TimeoutText), t)

----------------------------------------------------------------------------
(* NpmSearcher: the registry handlers *)

\* The timeoutMs each handler passes to fetchWithTimeout.
perCallTimeout(name) ==
  CASE name = "search_npm" -> 15000
    [] name = "fetch_package_content" -> 20000
    [] name = "get_package_versions" -> 15000
    [] name = "get_package_details" -> 20000

\* The prefix each handler's catch block puts before the message.
errorPrefix(name) ==
  CASE name = "search_npm" -> "Error searching npm packages: "
    [] name = "fetch_package_content" -> "Error fetching package content: "
    [] name = "get_package_versions" -> "Error fetching package versions: "
    [] name = "get_package_details" -> "Error fetching package details: "

\* The handler's catch block: a new Error whose message is the prefix and the
\* message of what was caught.
handlerCatch(name, message) ==
  Rejected("Error", "", <<errorPrefix(name)>> \o message)

\* The HTTP statuses the upstream answers with; response.ok is 200..299.
Statuses == {200, 404}
responseOk(status) == status >= 200 /\ status <= 299

\* The handler resumes after `await this.rateLimiter.acquire()` and calls
\* fetchWithTimeout: the abort timer is set and the request starts.
startFetch(rec, t) ==
  [rec EXCEPT !.pc = "fetching", !.abortTimer = "pending",
              !.abortDue = t + perCallTimeout(rec.name),
              !.fetches = @ + 1]

\* A handler that reads the body whatever the status.
onResponseNoCheck(rec, status, t) ==
  [rec EXCEPT !.abortTimer = "cleared", !.status = status, !.pc = "reading"]

\* A fetchWithTimeout that leaves its abort timer pending when fetch resolves.
onResponseKeepTimer(rec, status, t) ==
  LET kept == [rec EXCEPT !.status = status]
  IN IF responseOk(status)
       THEN [kept EXCEPT !.pc = "reading"]
       ELSE settleHandler(kept,
              handlerCatch(rec.name, <<"HTTP error! Status: ", ToString(status)>>), t)

\* fetch resolves with a response of the given status: the abort timer is
\* cleared; a status that is not ok is thrown, else the body is read.
onResponse(rec, status, t) ==
  LET cleared == [rec EXCEPT !.abortTimer = "cleared", !.status = status]
  IN IF responseOk(status)
       THEN [cleared EXCEPT !.pc = "reading"]
       ELSE settleHandler(cleared,
              handlerCatch(rec.name, <<"HTTP error! Status: ", ToString(status)>>), t)

\* A handler that makes its request a second time when the first has failed.
onFetchErrorRetry(rec, t) ==
  IF rec.fetches < 2
    THEN startFetch([rec EXCEPT !.abortTimer = "cleared"], t)
    ELSE settleHandler([rec EXCEPT !.abortTimer = "cleared"],
                       handlerCatch(rec.name, <<"fetch failed">>), t)

\* fetch rejects of its own (no connection): the abort timer is cleared and
\* the error thrown on.
onFetchError(rec, t) ==
  settleHandler([rec EXCEPT !.abortTimer = "cleared"],
                handlerCatch(rec.name, <<"fetch failed">>), t)

\* The abort timer when the controller's signal was not handed to fetch: the
\* request goes on.
abortTimerCallbackNoSignal(rec, t) ==
  [rec EXCEPT !.abortTimer = "fired", !.aborted = TRUE]

\* The callback of the abort timer: controller.abort(); fetch, which holds
\* the signal, rejects with an AbortError, which fetchWithTimeout throws on.
abortTimerCallback(rec, t) ==
  settleHandler([rec EXCEPT !.abortTimer = "fired", !.aborted = TRUE],
                handlerCatch(rec.name, <<"This operation was aborted">>), t)

\* response.json() / response.text() settles and the payload is shaped and
\* formatted: the handler returns and the dispatcher wraps the text, or what
\* was thrown is caught and thrown on.
onBody(rec, body, t) ==
  LET read == [rec EXCEPT !.body = body, !.reads = @ + 1]
      made == shape(rec.name, body)
  IN IF ~body.parsed
       THEN settleHandler(read, handlerCatch(rec.name, <<"invalid response body">>), t)
     ELSE IF made.threw
       THEN settleHandler(read, handlerCatch(rec.name, made.message), t)
     ELSE settleHandler([read EXCEPT !.payload = made.payload],
                        Fulfilled(formatResult(rec.name, made.payload)), t)

----------------------------------------------------------------------------
(* NpmCheckUpdatesHandler: the update handlers *)

\* The message of resolvePackagePath's error: it names the resolved path.
NotFoundText == <<"Package file not found: ", "resolvedPath">>

\* An update handler that waits while the gate has waiters queued.
startUpdateBehindQueue(rec, exists, t) ==
  IF Len(queue) > 0
    THEN [rec EXCEPT !.handlerCalls = @ + 1, !.pc = "blocked"]
    ELSE LET looked == [rec EXCEPT !.handlerCalls = @ + 1, !.lookups = @ + 1,
                                   !.manifest = IF exists THEN "found" ELSE "missing"]
         IN IF exists
              THEN [looked EXCEPT !.pc = "ncu", !.ncuRuns = @ + 1]
              ELSE settleHandler(looked, Rejected("Error", "", NotFoundText), t)

\* An update handler that starts ncu.run before it looks for the manifest.
startUpdateNcuFirst(rec, exists, t) ==
  LET looked == [rec EXCEPT !.handlerCalls = @ + 1, !.lookups = @ + 1,
                            !.ncuRuns = @ + 1,
                            !.manifest = IF exists THEN "found" ELSE "missing"]
  IN IF exists
       THEN [looked EXCEPT !.pc = "ncu"]
       ELSE settleHandler(looked, Rejected("Error", "", NotFoundText), t)

\* An update handler is called: resolvePackagePath throws when the manifest
\* does not exist, else runNcu starts ncu.run.
startUpdate(rec, exists, t) ==
  LET looked == [rec EXCEPT !.handlerCalls = @ + 1, !.lookups = @ + 1,
                            !.manifest = IF exists THEN "found" ELSE "missing"]
  IN IF exists
       THEN [looked EXCEPT !.pc = "ncu", !.ncuRuns = @ + 1]
       ELSE settleHandler(looked, Rejected("Error", "", NotFoundText), t)

\* ncu.run settles: the handler returns its message and data, or runNcu's
\* catch block throws a new Error.
onNcu(rec, ok, t) ==
  IF ok
    THEN settleHandler(rec, Fulfilled(<<"result of ", rec.name>>), t)
    ELSE settleHandler(rec,
           Rejected("Error", "", <<"NCU execution failed: ", "cause">>), t)

----------------------------------------------------------------------------
(* The dispatcher *)

\* The switch on the tool name when it has no default case and an unknown
\* name runs into the last case.
switchCaseNoDefault(name, parsedOk) ==
  IF ~parsedOk /\ name \in Tools THEN "InvalidParams"
  ELSE IF name \in RegistryTools THEN "registry" ELSE "update"

\* The switch on the tool name when one case (run_doctor) does not look at
\* the outcome of safeParse.
switchCaseNoCheck(name, parsedOk) ==
  IF name \notin Tools THEN "MethodNotFound"
  ELSE IF ~parsedOk /\ name # "run_doctor" THEN "InvalidParams"
  ELSE IF name \in RegistryTools THEN "registry"
  ELSE "update"

\* The switch on the tool name: where resultPromise goes before its first
\* await. parsedOk is parsedArgs.success in the case of the name.
switchCase(name, parsedOk) ==
  IF name \notin Tools THEN "MethodNotFound"
  ELSE IF ~parsedOk THEN "InvalidParams"
  ELSE IF name \in RegistryTools THEN "registry"
  ELSE "update"

\* The handler starts: the start time is taken and the invocation timer set.
begin(name, parsedOk, t) ==
  [IdleInv EXCEPT !.name = name, !.argsOk = parsedOk, !.start = t,
                  !.toolTimer = "pending"]

\* resultPromise up to its first await, for every case that does not reach
\* the gate.
callTool(rec, exists, t) ==
  LET case == switchCase(rec.name, rec.argsOk)
  IN CASE case = "MethodNotFound" ->
            settleHandler(rec, Rejected("McpError", "MethodNotFound",
                                        <<"Unknown tool: ", rec.name>>), t)
       [] case = "InvalidParams" ->
            settleHandler(rec, Rejected("McpError", "InvalidParams",
                                        <<"Invalid arguments: ", "[object Object]">>), t)
       [] case = "update" -> startUpdate(rec, exists, t)
       [] case = "registry" ->
            [rec EXCEPT !.handlerCalls = @ + 1, !.acquires = @ + 1,
                        !.pc = "queued"]

\* A caller that has not called yet calls acquire(). Callers are numbered in
\* the order of their calls.
AcquireCall(w) ==
  /\ waiter[w] = "none"
  /\ \A v \in Callers : v < w => waiter[v] # "none"
  /\ now <= LastAcquireTime
  /\ acquire(w)
  /\ UNCHANGED <<now, inv>>

\* A gate that releases nobody while a request is in flight: its timer looks
\* again one spacing later.
processQueueTimerWhenIdle(due) ==
  /\ BagIn(due, gateTimers)
  /\ due <= now
  /\ IF \E i \in DOMAIN inv : inv[i].pc \in {"fetching", "reading"}
       THEN /\ gateTimers' = (gateTimers (-) SetToBag({due}))
                               (+) SetToBag({now + rateLimit})
            /\ UNCHANGED <<queue, lastRequestTime, waiter, releaseLog>>
       ELSE GateAfter(processQueue(queue, lastRequestTime, now),
                      gateTimers (-) SetToBag({due}), 0)
  /\ UNCHANGED <<now, callLog>>

\* The callback of a timer set by processQueue: processQueue runs again.
processQueueTimer(due) ==
  /\ BagIn(due, gateTimers)
  /\ due <= now
  /\ GateAfter(processQueue(queue, lastRequestTime, now),
               gateTimers (-) SetToBag({due}), 0)
  /\ UNCHANGED <<now, callLog>>

\* A timer of the gate fires.
GateTimerFire(due) ==
  /\ processQueueTimer(due)
  /\ UNCHANGED inv

\* The clock advances; a due timer is run at most MaxLate late.
GateTick ==
  /\ now + TickMs <= GateHorizon
  /\ \A due \in BagToSet(gateTimers) : now + TickMs <= due + MaxLate
  /\ now' = now + TickMs
  /\ UNCHANGED <<gateVars, inv>>

\* The gate as constructed, at process start.
GateStart ==
  /\ now = Epoch
  /\ queue = <<>>
  /\ lastRequestTime = 0
  /\ gateTimers = EmptyBag
  /\ waiter = [w \in Callers |-> "none"]
  /\ callLog = <<>>
  /\ releaseLog = <<>>

\* The invocations followed through the dispatcher, and the callers of
\* acquire() that stand for the registry invocations followed at the gate only
\* (the gate is the only state invocations share).
Invs == 1 .. MaxInv
Others == Callers \ Invs

GateInit ==
  /\ GateStart
  /\ inv = [i \in Invs |-> IdleInv]

GateNext ==
  \/ \E w \in Callers : AcquireCall(w)
  \/ \E due \in BagToSet(gateTimers) : GateTimerFire(due)
  \/ GateTick

\* The gate alone, driven by arbitrary callers.
SpecGate == GateInit /\ [][GateNext]_vars

\* Scheduled timers eventually fire and time passes.
LiveGate ==
  /\ SpecGate
  /\ WF_vars(\E due \in BagToSet(gateTimers) : GateTimerFire(due))
  /\ WF_vars(GateTick)

----------------------------------------------------------------------------
(* The dispatcher with the gate and the handlers: the actions *)

\* The grid of the invocation clock: ten minimum spacings.
Quantum == 10 * rateLimit

Horizon == Epoch + toolTimeout + 2 * Quantum

\* The first point of the grid after time t.
NextGrid(t) == Epoch + Quantum * ((t - Epoch) \div Quantum + 1)

\* The handlers when a release resumes every queued handler, not only the one
\* whose waiter was released.
ResumedAll(base) ==
  IF Len(releaseLog') > Len(releaseLog)
    THEN [j \in Invs |-> IF base[j].pc = "queued" THEN startFetch(base[j], now)
                         ELSE base[j]]
    ELSE base

\* The handlers when the release of a waiter whose invocation was already
\* answered starts no request.
ResumedUnlessAnswered(base) ==
  LET released == IF Len(releaseLog') > Len(releaseLog)
                    THEN {releaseLog'[Len(releaseLog')].w} ELSE {}
  IN [j \in Invs |-> IF j \in released /\ base[j].response.kind = "none"
                       THEN startFetch(base[j], now) ELSE base[j]]

\* The invocations after a step of the gate: the handler of a waiter released
\* in the step resumes at once and starts its request. base is the
\* invocations as the step otherwise leaves them.
Resumed(base) ==
  LET released == IF Len(releaseLog') > Len(releaseLog)
                    THEN {releaseLog'[Len(releaseLog')].w} ELSE {}
  IN [j \in Invs |-> IF j \in released THEN startFetch(base[j], now) ELSE base[j]]

\* A registry invocation that is not followed further calls acquire().
OtherAcquire(w) ==
  /\ waiter[w] = "none"
  /\ \A v \in Others : v < w => waiter[v] # "none"
  /\ now <= LastAcquireTime
  /\ acquire(w)
  /\ inv' = Resumed(inv)
  /\ UNCHANGED now

\* A CallToolRequest arrives: the handler runs up to its first await. A
\* registry handler with valid arguments calls acquire(), which may release
\* a waiter (this one or an earlier one).
Invoke(i, name, parsedOk, exists) ==
  /\ inv[i].pc = "idle"
  /\ \A j \in Invs : j < i => inv[j].pc # "idle"
  /\ now <= LastAcquireTime
  /\ LET rec == callTool(begin(name, parsedOk, now), exists, now)
     IN IF rec.pc = "queued"
          THEN /\ acquire(i)
               /\ inv' = Resumed([inv EXCEPT ![i] = rec])
          ELSE /\ inv' = [inv EXCEPT ![i] = rec]
               /\ UNCHANGED gateVars
  /\ UNCHANGED now

\* A timer of the gate fires; the waiter it releases resumes.
GateWake(due) ==
  /\ processQueueTimer(due)
  /\ inv' = Resumed(inv)

\* The upstream answers the request of invocation i with a status line.
FetchResponse(i, status) ==
  /\ inv[i].pc = "fetching"
  /\ inv' = [inv EXCEPT ![i] = onResponse(@, status, now)]
  /\ UNCHANGED <<now, gateVars>>

\* The request of invocation i fails before any answer.
FetchError(i) ==
  /\ inv[i].pc = "fetching"
  /\ inv' = [inv EXCEPT ![i] = onFetchError(@, now)]
  /\ UNCHANGED <<now, gateVars>>

\* The abort timer of invocation i fires.
AbortTimerFire(i) ==
  /\ inv[i].abortTimer = "pending"
  /\ inv[i].abortDue <= now
  /\ inv' = [inv EXCEPT ![i] = abortTimerCallback(@, now)]
  /\ UNCHANGED <<now, gateVars>>

\* The body of the response to invocation i has been read, or reading or
\* shaping it has thrown.
BodyRead(i, body) ==
  /\ inv[i].pc = "reading"
  /\ inv' = [inv EXCEPT ![i] = onBody(@, body, now)]
  /\ UNCHANGED <<now, gateVars>>

\* ncu.run of invocation i settles.
NcuReturn(i, ok) ==
  /\ inv[i].pc = "ncu"
  /\ inv' = [inv EXCEPT ![i] = onNcu(@, ok, now)]
  /\ UNCHANGED <<now, gateVars>>

\* The invocation timer of invocation i fires. Nothing ever clears it.
ToolTimerFire(i) ==
  /\ inv[i].toolTimer = "pending"
  /\ inv[i].start + toolTimeout <= now
  /\ inv' = [inv EXCEPT ![i] = toolTimerCallback(@, now)]
  /\ UNCHANGED <<now, gateVars>>

\* The times at which a pending timer is due.
PendingDues ==
  BagToSet(gateTimers)
    \cup {inv[i].abortDue : i \in {j \in Invs : inv[j].abortTimer = "pending"}}
    \cup {inv[i].start + toolTimeout :
            i \in {j \in Invs : inv[j].toolTimer = "pending"}}

\* Time passes, to the next due timer or to the next point of the grid; a
\* timer runs when it is due, before time passes on.
Advance ==
  /\ \E t \in {NextGrid(now)} \cup PendingDues :
       /\ t > now
       /\ t <= Horizon
       /\ \A d \in PendingDues : t <= d
       /\ now' = t
  /\ UNCHANGED <<gateVars, inv>>

Init == GateInit

\* Invocation i of the set I arrives, with any name and any argument bag.
InvokeAny(I) ==
  \E i \in I, name \in Names, exists \in BOOLEAN :
    \E parsedOk \in IF name \in Tools
                      THEN {safeParse(name, args) : args \in ArgBags(name)}
                      ELSE {FALSE} :
      Invoke(i, name, parsedOk, exists)

\* Every step but the arrival of a caller.
Progress ==
  \/ \E due \in BagToSet(gateTimers) : GateWake(due)
  \/ \E i \in Invs, status \in Statuses : FetchResponse(i, status)
  \/ \E i \in Invs : FetchError(i)
  \/ \E i \in Invs : AbortTimerFire(i)
  \/ \E i \in Invs : \E body \in SampleBodies(inv[i].name) : BodyRead(i, body)
  \/ \E i \in Invs, ok \in BOOLEAN : NcuReturn(i, ok)
  \/ \E i \in Invs : ToolTimerFire(i)
  \/ Advance

Next ==
  \/ InvokeAny(Invs)
  \/ \E w \in Others : OtherAcquire(w)
  \/ Progress

\* The dispatcher, the handlers and the gate together.
Spec == Init /\ [][Next]_vars

\* The waiters a burst leaves queued: as many as minimum spacings fit in the
\* invocation-level timeout, so that the next caller waits longer than that.
Backlog == toolTimeout \div rateLimit

\* The gate right after a burst of Backlog + 1 acquire() calls by callers that
\* are not followed further (caller 0): the first was released, each of the
\* others is queued and has set a timer for the minimum spacing.
BurstInit ==
  /\ now = Epoch
  /\ queue = [k \in 1 .. Backlog |-> 0]
  /\ lastRequestTime = Epoch
  /\ gateTimers = [d \in {Epoch + rateLimit} |-> Backlog]
  /\ waiter = [w \in Callers |-> "none"]
  /\ callLog = [k \in 1 .. Backlog + 1 |-> [w |-> 0, at |-> Epoch]]
  /\ releaseLog = <<[w |-> 0, at |-> Epoch, by |-> 0]>>
  /\ inv = [i \in Invs |-> IdleInv]

\* One invocation and no other caller, arriving at a fresh gate or right
\* behind a burst.
SpecBurst == (Init \/ BurstInit) /\ [][InvokeAny({1}) \/ Progress]_vars

\* Right after a burst, a registry invocation and then the other callers
\* arrive, all before the first timer of the burst is due; the upstream
\* answers or stalls.
BehindNext ==
  \/ \E name \in RegistryTools : now = Epoch /\ Invoke(1, name, TRUE, TRUE)
  \/ \E w \in Others : now = Epoch /\ inv[1].pc # "idle" /\ OtherAcquire(w)
  \/ \E due \in BagToSet(gateTimers) : GateWake(due)
  \/ \E status \in Statuses : FetchResponse(1, status)
  \/ \E body \in SampleBodies(inv[1].name) : BodyRead(1, body)
  \/ ToolTimerFire(1)
  \/ Advance

\* An invocation queued behind a burst, with waiters queued behind it.
SpecBehind == BurstInit /\ [][BehindNext]_vars

\* A registry invocation with valid arguments, answered at once with a success
\* status and any body.
ShapeNext ==
  \/ \E name \in RegistryTools : Invoke(1, name, TRUE, TRUE)
  \/ FetchResponse(1, 200)
  \/ \E body \in Bodies(inv[1].name) : BodyRead(1, body)

\* The registry handlers over the upstream payloads.
SpecShape == Init /\ [][ShapeNext]_vars

----------------------------------------------------------------------------
(* Claims about the gate *)

\* C1: the release times of any two released waiters that are j places apart
\* in release order differ by at least j times the minimum spacing; so
\* consecutive releases are at least rateLimit apart, and in a burst the k-th
\* release comes no earlier than (k-1) x rateLimit after the first.
C1_MinimumSpacing ==
  \A j, k \in 1 .. Len(releaseLog) :
    j < k => releaseLog[k].at - releaseLog[j].at >= (k - j) * rateLimit

\* Three acquire() calls made at the same instant have all been released.
C1_Witness ==
  /\ Len(releaseLog) = 3
  /\ \A k \in 1 .. 3 : callLog[k].at = callLog[1].at

\* C2: waiters are released in the order of their acquire() calls: the k-th
\* release is the k-th caller.
C2_Fifo ==
  /\ Len(releaseLog) <= Len(callLog)
  /\ \A k \in 1 .. Len(releaseLog) : releaseLog[k].w = callLog[k].w

\* A later caller's acquire() call released an earlier waiter, a timer
\* released another one, and a third was released by its own call.
C2_Witness ==
  /\ \E k \in 1 .. Len(releaseLog) : releaseLog[k].by \notin {0, releaseLog[k].w}
  /\ \E k \in 1 .. Len(releaseLog) : releaseLog[k].by = 0
  /\ \E k \in 1 .. Len(releaseLog) : releaseLog[k].by = releaseLog[k].w

\* C3: every acquire() call eventually resolves, provided timers fire.
C3_NeverDrops ==
  \A w \in Callers : (waiter[w] = "queued") ~> (waiter[w] = "resolved")

\* A caller that had to wait in the queue behind another one was released.
C3_Witness ==
  \E k \in 2 .. Len(releaseLog) :
    /\ releaseLog[k].at > callLog[k].at
    /\ callLog[k].at < releaseLog[k - 1].at + rateLimit

----------------------------------------------------------------------------
(* Claims about the dispatcher and the handlers *)

\* The invocations that have arrived.
Started == {i \in Invs : inv[i].pc # "idle"}

\* The envelope the catch block makes of the invocation timer's rejection.
TimeoutEnvelope ==
  [kind |-> "envelope", isError |-> TRUE, code |-> "", text |-> TimeoutText,
   segments |-> 1]

\* C4: an invocation is answered no later than toolTimeout after it starts,
\* whatever its handler is doing (queued in the gate, fetching, reading,
\* running ncu): past that time it has a response, no response was produced
\* later than that, and if the handler had not settled when the invocation
\* timer ran, the response is the isError envelope stating the timeout, and
\* stays so when the handler settles later.
C4_AnsweredByDeadline ==
  \A i \in Started :
    /\ now > inv[i].start + toolTimeout => inv[i].response.kind # "none"
    /\ inv[i].toolTimer = "fired" => inv[i].response.kind # "none"
    /\ ~inv[i].late
    /\ inv[i].timedOut => inv[i].response = TimeoutEnvelope

\* The invocation timer ran while the handler was still queued in the gate;
\* the handler was released afterwards, made its request and returned.
C4_Witness ==
  \E i \in Started :
    /\ inv[i].timedOut
    /\ inv[i].fetches = 1
    /\ inv[i].result.state = "fulfilled"
    /\ inv[i].response = TimeoutEnvelope
    /\ \E k \in 1 .. Len(releaseLog) :
         releaseLog[k].w = i /\ releaseLog[k].at > inv[i].start + toolTimeout

\* C5: an invocation produces one response and no more: the dispatcher's
\* continuation runs at most once, no rejection goes unhandled, and once a
\* response exists no later step (a handler result, a handler rejection, the
\* invocation timer) changes it.
C5_ExactlyOneOutcome ==
  /\ [](\A i \in Invs :
          /\ inv[i].responses <= 1
          /\ inv[i].faults = 0
          /\ (inv[i].responses = 1) = (inv[i].response.kind # "none"))
  /\ [][\A i \in Invs :
          inv[i].response.kind # "none" => inv'[i].response = inv[i].response]_vars

\* A handler answered first and the invocation timer fired afterwards.
C5_Witness ==
  \E i \in Started :
    /\ inv[i].response.kind = "envelope"
    /\ ~inv[i].response.isError
    /\ inv[i].toolTimer = "fired"

\* C6: for a known tool with valid arguments the response is never a thrown
\* error: it is an envelope with one text segment, with isError exactly when
\* the race was lost to a rejection (a handler failure of any kind or the
\* invocation timeout), whose message is then the text.
C6_RuntimeFailuresAreEnvelopes ==
  \A i \in Started :
    (inv[i].name \in Tools /\ inv[i].argsOk /\ inv[i].response.kind # "none") =>
      /\ inv[i].response.kind = "envelope"
      /\ inv[i].response.segments = 1
      /\ inv[i].response.isError = (inv[i].race.state = "rejected")
      /\ inv[i].response.text = inv[i].race.text

\* A registry handler failed on a non-success HTTP status and the caller got
\* the isError envelope carrying it.
C6_Witness ==
  \E i \in Started :
    /\ inv[i].argsOk
    /\ inv[i].name \in RegistryTools
    /\ inv[i].response.isError
    /\ inv[i].response.text =
         <<errorPrefix(inv[i].name), "HTTP error! Status: ", "404">>

\* What an invocation has done beyond the dispatcher: nothing.
Untouched(i) ==
  /\ inv[i].handlerCalls = 0
  /\ inv[i].acquires = 0
  /\ inv[i].fetches = 0
  /\ inv[i].lookups = 0
  /\ inv[i].ncuRuns = 0
  /\ waiter[i] = "none"
  /\ \A k \in 1 .. Len(callLog) : callLog[k].w # i

\* C7: an invocation naming no tool ends in a thrown McpError MethodNotFound,
\* and never calls a handler, acquire(), fetch or ncu.
C7_UnknownOperation ==
  \A i \in Started :
    inv[i].name \notin Tools =>
      /\ inv[i].response.kind = "thrown"
      /\ inv[i].response.code = "MethodNotFound"
      /\ Untouched(i)

\* An unknown name was rejected, and its invocation timer has since fired.
C7_Witness ==
  \E i \in Started :
    /\ inv[i].name = "bogus_tool"
    /\ inv[i].response.code = "MethodNotFound"
    /\ inv[i].toolTimer = "fired"

\* C8: for each of the ten tools, an argument bag its schema rejects ends in a
\* thrown McpError InvalidParams, and the invocation never calls a handler,
\* acquire(), fetch, the manifest lookup or ncu.
C8_InvalidArguments ==
  \A i \in Started :
    (inv[i].name \in Tools /\ ~inv[i].argsOk) =>
      /\ inv[i].response.kind = "thrown"
      /\ inv[i].response.code = "InvalidParams"
      /\ Untouched(i)

\* run_doctor was called with an argument bag its schema rejects.
C8_Witness ==
  \E i \in Started :
    /\ inv[i].name = "run_doctor"
    /\ ~inv[i].argsOk
    /\ inv[i].response.code = "InvalidParams"

\* C9: when the abort timer of fetchWithTimeout has fired, the controller is
\* aborted, the request is no longer in flight, the handler has failed, and
\* the caller has an isError envelope.
C9_AbortOnPerCallDeadline ==
  \A i \in Started :
    inv[i].abortTimer = "fired" =>
      /\ inv[i].aborted
      /\ inv[i].pc = "done"
      /\ inv[i].result.state = "rejected"
      /\ inv[i].response.kind = "envelope"
      /\ inv[i].response.isError

\* The abort timer fired on a pending request and the caller got the handler's
\* abort failure.
C9_Witness ==
  \E i \in Started :
    /\ inv[i].abortTimer = "fired"
    /\ inv[i].response.text =
         <<errorPrefix(inv[i].name), "This operation was aborted">>

\* C10 (as claimed): a network call is bounded by its per-call deadline from
\* the start of the request until the response has been read: no request is
\* still being answered or read after fetch start + perCallTimeout.
C10_DeadlineCoversBody ==
  \A i \in Started :
    inv[i].pc \in {"fetching", "reading"} => now <= inv[i].abortDue

\* C11 (as claimed): once the operation a deadline wraps has settled, no timer
\* of that deadline is pending: neither the abort timer of fetchWithTimeout
\* once fetch has settled, nor the invocation timer once the handler's promise
\* has settled.
C11_NoTimerAfterSettle ==
  \A i \in Started :
    /\ inv[i].pc \in {"reading", "done"} => inv[i].abortTimer # "pending"
    /\ inv[i].result.state # "pending" => inv[i].toolTimer # "pending"

\* What an invocation has attempted: the handler calls, acquire() calls,
\* requests started, manifest lookups and ncu runs it has made.
Attempts(rec) ==
  <<rec.handlerCalls, rec.acquires, rec.fetches, rec.lookups, rec.ncuRuns>>

\* C12: no retries: an invocation calls its handler, acquire(), fetch, the
\* manifest lookup and ncu.run at most once each, and once its handler has
\* failed it attempts nothing more.
C12_NoRetries ==
  /\ [](\A i \in Invs :
          /\ inv[i].handlerCalls <= 1
          /\ inv[i].acquires <= 1
          /\ inv[i].fetches <= 1
          /\ inv[i].lookups <= 1
          /\ inv[i].ncuRuns <= 1)
  /\ [][\A i \in Invs :
          inv[i].result.state = "rejected" => Attempts(inv'[i]) = Attempts(inv[i])]_vars

\* A request failed before any answer; the failure was reported after that one
\* attempt, and the invocation timer has since fired.
C12_Witness ==
  \E i \in Started :
    /\ inv[i].name \in RegistryTools
    /\ inv[i].result.text = <<errorPrefix(inv[i].name), "fetch failed">>
    /\ inv[i].response.isError
    /\ inv[i].acquires = 1
    /\ inv[i].fetches = 1
    /\ inv[i].toolTimer = "fired"

\* C13: for each of the six update tools, when the resolved manifest does not
\* exist the handler fails at once, ncu.run is never called, and the caller
\* gets an isError envelope whose one text segment names the resolved path.
C13_MissingManifest ==
  \A i \in Started :
    (inv[i].name \in UpdateTools /\ inv[i].manifest = "missing") =>
      /\ inv[i].ncuRuns = 0
      /\ inv[i].pc = "done"
      /\ inv[i].result.state = "rejected"
      /\ inv[i].response.kind = "envelope"
      /\ inv[i].response.isError
      /\ inv[i].response.segments = 1
      /\ inv[i].response.text = NotFoundText

\* run_doctor was called on a missing manifest and answered with the failure;
\* the invocation timer has since fired.
C13_Witness ==
  \E i \in Started :
    /\ inv[i].name = "run_doctor"
    /\ inv[i].manifest = "missing"
    /\ inv[i].response.isError
    /\ inv[i].toolTimer = "fired"

----------------------------------------------------------------------------
(* Claims about the shaped payloads *)

\* The invocations of a tool whose handler has returned.
ReturnedBy(name) ==
  {i \in Started : inv[i].name = name /\ inv[i].result.state = "fulfilled"}

\* The pieces of a text that satisfy a test, and whether a piece occurs in it.
Occurs(piece, text) == \E k \in 1 .. Len(text) : text[k] = piece

\* C14 (as claimed): what a registry handler returns is bounded by a fixed
\* constant whatever the size of the upstream payload; for the version list of
\* getPackageVersions: it never has more entries than the largest number of
\* versions the code cuts a list to.
C14_PayloadBounded ==
  \A i \in ReturnedBy("get_package_versions") :
    Len(inv[i].payload.items) <= versionsShown

\* C15: for a version list of length V, formatVersions lists the first
\* min(V, 15) entries of the list in list order and nothing else, and ends
\* with the suffix "...and V-15 more versions" exactly when V > 15.
C15_FormatVersions ==
  \A i \in ReturnedBy("get_package_versions") :
    LET versions == inv[i].payload.items
        V == Len(versions)
        text == inv[i].response.text
        IsVersion(p) == \E k \in 1 .. MaxVersions : p = Ver(k)
    IN /\ SelectSeq(text, IsVersion) =
            SubSeq(versions, 1, IF V < versionsShown THEN V ELSE versionsShown)
       /\ Occurs("\n...and ", text) = (V > versionsShown)
       /\ V > versionsShown =>
            SubSeq(text, Len(text) - 2, Len(text)) =
              <<"\n...and ", ToString(V - versionsShown), " more versions">>

\* A list of more than 15 versions was formatted, newest first.
C15_Witness ==
  \E i \in ReturnedBy("get_package_versions") :
    /\ Len(inv[i].payload.items) > versionsShown
    /\ inv[i].payload.items[1] = Ver(Len(inv[i].body.versions))
    /\ Occurs(Ver(Len(inv[i].body.versions)), inv[i].response.text)
    /\ ~Occurs(Ver(1), inv[i].response.text)

\* C16: of a document with V versions getPackageDetails keeps min(V, 10)
\* entries: the last ones in upstream insertion order, in that order, each
\* with no field besides name, version, description, main and the three
\* dependency maps.
C16_LastTenVersions ==
  \A i \in ReturnedBy("get_package_details") :
    LET upstream == inv[i].body.versions
        V == Len(upstream)
        n == IF V < versionsKept THEN V ELSE versionsKept
        kept == inv[i].payload.items
    IN /\ Len(kept) = n
       /\ \A j \in 1 .. n :
            /\ kept[j].key = upstream[V - n + j].key
            /\ \A f \in 1 .. Len(kept[j].fields) :
                 kept[j].fields[f] \in
                   {"name", "version", "description", "main", "dependencies",
                    "devDependencies", "peerDependencies"}

\* A document with more than 10 versions was shaped; its first version was
\* dropped, and an entry with more fields than are kept was cut down.
C16_Witness ==
  \E i \in ReturnedBy("get_package_details") :
    /\ Len(inv[i].body.versions) > versionsKept
    /\ inv[i].payload.items[1].key # Ver(1)
    /\ \E j \in 1 .. Len(inv[i].payload.items) :
         Len(inv[i].payload.items[j].fields) = Len(KeptFields)

\* C17: fetchPackageContent emits a README of at most 4000 characters as it
\* is, and a longer one as its first 4000 characters and then the truncation
\* marker; the marker is in the text exactly when the README was longer.
C17_ReadmeCap ==
  \A i \in ReturnedBy("fetch_package_content") :
    LET readme == inv[i].body.readme
        text == inv[i].response.text
        emitted == IF Occurs("README:\n", text)
                     THEN SubSeq(text,
                                 (CHOOSE k \in 1 .. Len(text) : text[k] = "README:\n") + 1,
                                 Len(text))
                     ELSE <<>>
    IN /\ Occurs(TruncationMarker, text) = (Len(readme) > 4000)
       /\ Len(readme) <= 4000 => emitted = readme
       /\ Len(readme) > 4000 =>
            /\ Len(emitted) = 4001
            /\ \A k \in 1 .. 4000 : emitted[k] = readme[k]
            /\ emitted[4001] = TruncationMarker

\* A README of 4001 characters was cut, and one of exactly 4000 was not.
C17_Witness ==
  \E i \in ReturnedBy("fetch_package_content") :
    /\ Len(inv[i].body.readme) = readmeCap + 1
    /\ Occurs(TruncationMarker, inv[i].response.text)
    /\ ~Occurs(Chr(readmeCap + 1), inv[i].response.text)

\* C18: for a search response with total T and n >= 1 objects the text begins
\* "Found T packages (showing n)" and then has one entry per returned
\* package, in upstream order.
C18_SearchText ==
  \A i \in ReturnedBy("search_npm") :
    LET data == inv[i].body
        n == Len(data.objects)
        text == inv[i].response.text
        IsName(p) == \E k \in 1 .. MaxObjects : p = Pkg(k)
        IsMark(p) == p = PackageMark
    IN n >= 1 =>
         /\ SubSeq(text, 1, 5) =
              <<"Found ", ToString(data.total), " packages (showing ",
                ToString(n), "):\n\n">>
         /\ Len(SelectSeq(text, IsMark)) = n
         /\ SelectSeq(text, IsName) = [k \in 1 .. n |-> data.objects[k].name]

\* A response with total 42 and two objects was formatted.
C18_Witness ==
  \E i \in ReturnedBy("search_npm") :
    /\ inv[i].body.total = 42
    /\ Len(inv[i].body.objects) = 2
    /\ SubSeq(inv[i].response.text, 1, 5) =
         <<"Found ", "42", " packages (showing ", "2", "):\n\n">>

\* C19 (as claimed): shaping never fails: a response with a success status
\* whose body could be read gives a result, whatever parts the body lacks.
C19_ShapingNeverFails ==
  \A i \in Started :
    (inv[i].pc = "done" /\ inv[i].body.parsed) => inv[i].result.state = "fulfilled"

----------------------------------------------------------------------------
(* Claims about the failures the caller sees *)

\* C20: every failure the caller sees (an isError envelope or a thrown
\* McpError) has a text that is not empty and is the message of the error that
\* won the race; that message states the timeout, or is the handler's and
\* then names the unknown tool, the invalid arguments, the missing path, the
\* HTTP status, the abort, or the failure of ncu and its cause.
C20_FailuresCarryCause ==
  \A i \in Started :
    LET r == inv[i].response IN
    (r.kind = "thrown" \/ r.isError) =>
      /\ Len(r.text) > 0
      /\ \A k \in 1 .. Len(r.text) : r.text[k] # ""
      /\ inv[i].race.state = "rejected"
      /\ r.text = inv[i].race.text
      /\ \/ /\ inv[i].toolTimer = "fired"
            /\ r.text = <<"Tool execution timed out after ", "30", "s">>
         \/ /\ r.text = inv[i].result.text
            /\ inv[i].name \notin Tools =>
                 Occurs("Unknown tool: ", r.text) /\ Occurs(inv[i].name, r.text)
            /\ (inv[i].name \in Tools /\ ~inv[i].argsOk) =>
                 Occurs("Invalid arguments: ", r.text)
            /\ inv[i].manifest = "missing" =>
                 Occurs("Package file not found: ", r.text)
                 /\ Occurs("resolvedPath", r.text)
            /\ inv[i].ncuRuns = 1 =>
                 Occurs("NCU execution failed: ", r.text) /\ Occurs("cause", r.text)
            /\ inv[i].status \notin {0, 200} =>
                 Occurs("HTTP error! Status: ", r.text)
                 /\ Occurs(ToString(inv[i].status), r.text)
            /\ inv[i].aborted => Occurs("This operation was aborted", r.text)

\* ncu.run failed and the caller got the envelope that says so, with the
\* cause.
C20_Witness ==
  \E i \in Started :
    /\ inv[i].ncuRuns = 1
    /\ inv[i].response.isError
    /\ inv[i].response.text = <<"NCU execution failed: ", "cause">>

----------------------------------------------------------------------------
(* Claims about the gate and the invocations together *)

\* The releases of the waiter of invocation i, as places in releaseLog.
ReleasesOf(i) == {k \in 1 .. Len(releaseLog) : releaseLog[k].w = i}

\* C21: a registry handler starts its request only after its own acquire()
\* call was resolved: an invocation whose waiter is queued (or that never
\* called acquire()) has started no request, and the requests started are no
\* more than the releases of the gate.
C21_RequestAfterRelease ==
  \A i \in Started :
    /\ inv[i].fetches >= 1 => (waiter[i] = "resolved" /\ ReleasesOf(i) # {})
    /\ waiter[i] # "resolved" => inv[i].pc \notin {"fetching", "reading"}
    /\ inv[i].fetches <= Cardinality(ReleasesOf(i))
    /\ inv[i].fetches <= Len(releaseLog)

\* An invocation waited in the queue while another waiter was released, and
\* started its request when its own turn came.
C21_Witness ==
  \E i \in Started :
    /\ inv[i].fetches = 1
    /\ \E k \in ReleasesOf(i) :
         /\ k > 1
         /\ releaseLog[k].at > inv[i].start
         /\ releaseLog[k - 1].at >= inv[i].start

\* C22: when the invocation timer fires while the waiter of the invocation is
\* queued, the gate is left as it is and the waiter stays in the queue; it is
\* released in its turn, the handler then starts its request although the
\* caller already has the timeout envelope, and every later release comes at
\* least the minimum spacing after that release.
C22_QueuedPastDeadline ==
  /\ [](\A i \in Started :
          /\ (inv[i].toolTimer = "fired" /\ waiter[i] = "queued") =>
               /\ \E k \in 1 .. Len(queue) : queue[k] = i
               /\ inv[i].response = TimeoutEnvelope
          /\ \A k \in ReleasesOf(i) :
               /\ callLog[k].w = i
               /\ releaseLog[k].at > inv[i].start + toolTimeout =>
                    /\ inv[i].fetches = 1
                    /\ inv[i].response = TimeoutEnvelope
               /\ \A j \in k + 1 .. Len(releaseLog) :
                    releaseLog[j].at >= releaseLog[k].at + rateLimit)
  /\ [][\A i \in Invs :
          (inv[i].toolTimer = "pending" /\ inv'[i].toolTimer = "fired") =>
            UNCHANGED <<queue, lastRequestTime, gateTimers, waiter>>]_vars

\* An invocation was answered with the timeout while queued, was released
\* after that and started its request, and a waiter queued behind it was
\* released one spacing later.
C22_Witness ==
  \E i \in Started : \E k \in ReleasesOf(i) :
    /\ releaseLog[k].at > inv[i].start + toolTimeout
    /\ inv[i].fetches = 1
    /\ inv[i].response = TimeoutEnvelope
    /\ Len(releaseLog) > k
    /\ releaseLog[k + 1].at = releaseLog[k].at + rateLimit

\* C23 (as claimed): the invocation-level timeout covers the wait in the gate
\* and the per-call deadline: a registry invocation is released early enough
\* for its per-call deadline to end within toolTimeout, and is never timed out
\* before its request has started.
C23_DeadlineCoversWait ==
  \A i \in Started :
    (inv[i].name \in RegistryTools /\ inv[i].argsOk) =>
      /\ \A k \in ReleasesOf(i) :
           (releaseLog[k].at - inv[i].start) + perCallTimeout(inv[i].name)
             <= toolTimeout
      /\ inv[i].toolTimer = "fired" =>
           \E k \in ReleasesOf(i) : releaseLog[k].at <= inv[i].start + toolTimeout

\* C24 (as claimed): the InvalidParams error the caller gets for an argument
\* bag the schema rejects says which fields were rejected: its message names
\* a field of the schema of the tool.
C24_ValidationDetail ==
  \A i \in Started :
    (inv[i].name \in Tools /\ ~inv[i].argsOk) =>
      /\ inv[i].response.kind = "thrown"
      /\ \E f \in DOMAIN Schema(inv[i].name) : Occurs(f, inv[i].response.text)

C26_TimerPerWaiter ==
  /\ [](/\ BagCardinality(gateTimers) = Len(queue)
        /\ Len(queue) > 0 => BagToSet(gateTimers) # {}
        /\ BagToSet(gateTimers) # {} => Len(queue) > 0)
  /\ [][Len(releaseLog') <= Len(releaseLog) + 1]_vars

\* Two waiters are queued behind a released one, each with its own timer.
C26_Witness ==
  /\ Len(queue) = 2
  /\ BagCardinality(gateTimers) = 2
  /\ Len(releaseLog) = 1

\* C30: an acquire() call made when at least rateLimit has passed since the
\* last release resolves a waiter within the call and sets no timer; the
\* waiter is the head of the queue, which need not be the caller. The first
\* acquire() on a new gate is released in its own call.
C30_ImmediateRelease ==
  /\ [](Len(callLog) >= 1 =>
          /\ Len(releaseLog) >= 1
          /\ releaseLog[1] = [w |-> callLog[1].w, at |-> callLog[1].at,
                              by |-> callLog[1].w])
  /\ [][(Len(callLog') > Len(callLog) /\ now - lastRequestTime >= rateLimit) =>
          /\ Len(releaseLog') = Len(releaseLog) + 1
          /\ gateTimers' = gateTimers
          /\ LET caller == callLog'[Len(callLog')].w
                 rel == releaseLog'[Len(releaseLog')]
             IN /\ rel.w = Head(Append(queue, caller))
                /\ rel.by = caller
                /\ rel.at = now
                /\ waiter'[rel.w] = "resolved"
                /\ lastRequestTime' = now]_vars

\* An acquire() call released the waiter at the head of the queue, which was
\* another caller's, and left its own caller queued.
C30_Witness ==
  \E k \in 2 .. Len(releaseLog) :
    /\ releaseLog[k].by \notin {0, releaseLog[k].w}
    /\ waiter[releaseLog[k].by] = "queued"
    /\ releaseLog[1].by = releaseLog[1].w

\* C27: the gate paces the start of calls and nothing else: the k-th release
\* comes when rateLimit has passed since the release before it, or when its
\* acquire() call is made if that is later, whatever the requests started
\* before are doing (pending, stalled, timed out).
C27_PacesStartsOnly ==
  \A k \in 1 .. Len(releaseLog) :
    LET earliest == IF k = 1 THEN callLog[k].at
                    ELSE releaseLog[k - 1].at + rateLimit
    IN releaseLog[k].at =
         IF callLog[k].at > earliest THEN callLog[k].at ELSE earliest

\* The request of an invocation is still pending, unanswered, and the waiter
\* queued behind the invocation was released one spacing after it: two
\* requests are in flight.
C27_Witness ==
  \E i \in Started : \E k \in ReleasesOf(i) :
    /\ inv[i].pc = "fetching"
    /\ Len(releaseLog) > k
    /\ releaseLog[k + 1].at = releaseLog[k].at + rateLimit
    /\ now > releaseLog[k + 1].at

\* C28: only registry invocations with valid arguments touch the gate: an
\* invocation of an update tool, of an unknown tool or with invalid arguments
\* never calls acquire() and no step of it changes the queue or
\* lastRequestTime; and an update handler looks for the manifest and starts
\* ncu.run in the step in which it is invoked, whatever is queued in the gate.
C28_GateOnlyForRegistry ==
  /\ [](\A i \in Started :
          (inv[i].name \notin RegistryTools \/ ~inv[i].argsOk) =>
            /\ inv[i].acquires = 0
            /\ inv[i].fetches = 0
            /\ waiter[i] = "none"
            /\ \A k \in 1 .. Len(callLog) : callLog[k].w # i
            /\ (inv[i].name \in UpdateTools /\ inv[i].argsOk) =>
                 /\ inv[i].lookups = 1
                 /\ inv[i].pc \in {"ncu", "done"}
                 /\ inv[i].manifest = "found" => inv[i].ncuRuns = 1)
  /\ [][\A i \in Invs :
          ((inv'[i].name \notin RegistryTools \/ ~inv'[i].argsOk)
             /\ inv'[i] # inv[i]) =>
            UNCHANGED <<queue, lastRequestTime, gateTimers, waiter>>]_vars

\* An update tool was invoked while the gate had a full backlog queued, and
\* ncu.run was started at once; nothing in the gate moved.
C28_Witness ==
  \E i \in Started :
    /\ inv[i].name \in UpdateTools
    /\ inv[i].ncuRuns = 1
    /\ now = inv[i].start
    /\ Len(queue) = Backlog
    /\ Len(releaseLog) = 1

\* C29: fetchWithTimeout clears its abort timer when fetch resolves and when
\* fetch rejects: once the request is answered or has failed, the timer is
\* not pending, it does not fire later and the controller is not aborted
\* later; the timer fires at most once, and the controller is aborted exactly
\* when it has fired.
C29_AbortTimerCleared ==
  /\ [](\A i \in Started :
          /\ (inv[i].fetches >= 1 /\ inv[i].pc \in {"reading", "done"}) =>
               inv[i].abortTimer \in {"cleared", "fired"}
          /\ inv[i].abortTimer = "cleared" => ~inv[i].aborted
          /\ inv[i].aborted = (inv[i].abortTimer = "fired"))
  /\ [][\A i \in Invs :
          inv[i].abortTimer \in {"cleared", "fired"} =>
            /\ inv'[i].abortTimer = inv[i].abortTimer
            /\ inv'[i].aborted = inv[i].aborted]_vars

\* A request failed of its own, the timer was cleared, and the time at which
\* it was due has passed without an abort.
C29_Witness ==
  \E i \in Started :
    /\ inv[i].name \in RegistryTools
    /\ inv[i].result.text = <<errorPrefix(inv[i].name), "fetch failed">>
    /\ inv[i].abortTimer = "cleared"
    /\ now > inv[i].abortDue
    /\ ~inv[i].aborted

====
